---- MODULE Spec2Model ----
(***************************************************************************)
(* Model of sume/base.py: the Sentence record, LoadFile.read_documents,    *)
(* LoadFile.prune_sentences and LoadFile._untokenize.                      *)
(*                                                                         *)
(* A Python string is modelled as a sequence of one-character strings, so  *)
(* that every regular-expression rewrite of _untokenize is computed        *)
(* character by character, the way re.sub computes it (leftmost match,     *)
(* greedy quantifiers, non-overlapping replacements).                      *)
(***************************************************************************)
EXTENDS Integers, Sequences, FiniteSets, TLC

(***************************************************************************)
(* Character classes of Python's re module, restricted to ASCII.           *)
(***************************************************************************)
Whitespace == {" ", "\t", "\n", "\r", "\f"}

Digits == {"0", "1", "2", "3", "4", "5", "6", "7", "8", "9"}

LowerCase ==
    {"a", "b", "c", "d", "e", "f", "g", "h", "i", "j", "k", "l", "m",
     "n", "o", "p", "q", "r", "s", "t", "u", "v", "w", "x", "y", "z"}

UpperCase ==
    {"A", "B", "C", "D", "E", "F", "G", "H", "I", "J", "K", "L", "M",
     "N", "O", "P", "Q", "R", "S", "T", "U", "V", "W", "X", "Y", "Z"}

\* The grave accent (0x60), two of which make the opening quote marker of the
\* tokenizer.  The character cannot stand in a string of this language, so
\* the two-letter string stands for the one character.
BackQuote == "bq"

\* \w
WordChars == LowerCase \cup UpperCase \cup Digits \cup {"_"}

\* [\.;,-]  (the hyphen stands last in the class: a literal hyphen)
MidPunct == {".", ";", ",", "-"}

\* [\.;,-?!]  (here ",-?" is a range, from "," (0x2C) to "?" (0x3F))
FinalPunct ==
    {".", ";", "!"} \cup
    ({",", "-", ".", "/"} \cup Digits \cup {":", ";", "<", "=", ">", "?"})

\* [\d\.]
DigitsOrDot == Digits \cup {"."}

(***************************************************************************)
(* Helpers on character sequences.                                         *)
(***************************************************************************)
\* text[i], or the empty string (which is no character) outside the text
At(t, i) == IF i \in 1..Len(t) THEN t[i] ELSE ""

\* the literal lit stands in t at position i
Lit(t, i, lit) == \A k \in 1..Len(lit) : At(t, i + k - 1) = lit[k]

SetMin(S) == CHOOSE x \in S : \A y \in S : x <= y

SetMax(S) == CHOOSE x \in S : \A y \in S : x >= y

\* the first position >= i whose character is not in class (Len(t)+1 if none):
\* where a greedy class+ that starts at i stops
RunEnd(t, i, class) ==
    SetMin({j \in i..(Len(t) + 1) : j = Len(t) + 1 \/ t[j] \notin class})

\* the same for a negated class [^...]
RunEndNot(t, i, class) ==
    SetMin({j \in i..(Len(t) + 1) : j = Len(t) + 1 \/ t[j] \in class})

\* the anchor $ at position j: the end of the string, or just before a
\* newline that ends the string
AtEnd(t, j) == j = Len(t) + 1 \/ (j = Len(t) /\ t[j] = "\n")

\* str.strip()
Strip(t) ==
    LET keep == {i \in 1..Len(t) : t[i] \notin Whitespace}
    IN  IF keep = {} THEN <<>> ELSE SubSeq(t, SetMin(keep), SetMax(keep))

\* u' '.join(tokens)
RECURSIVE Join(_)
Join(tokens) ==
    IF tokens = <<>> THEN <<>>
    ELSE IF Len(tokens) = 1 THEN tokens[1]
    ELSE tokens[1] \o <<" ">> \o Join(Tail(tokens))

\* str.split(' '): the pieces between single spaces (one more than the
\* number of spaces; the empty string gives one empty piece)
RECURSIVE SplitSpace(_)
SplitSpace(t) ==
    LET sp == {i \in 1..Len(t) : t[i] = " "}
    IN  IF sp = {} THEN <<t>>
        ELSE <<SubSeq(t, 1, SetMin(sp) - 1)>>
             \o SplitSpace(SubSeq(t, SetMin(sp) + 1, Len(t)))

(***************************************************************************)
(* The rewrite rules of _untokenize.  For each rule, M<line>(t, i) is the  *)
(* position one past the match that starts at i (0 when the pattern does   *)
(* not match at i), and R<line>(t, i, e) the replacement of that match.    *)
(***************************************************************************)
\* \s+  ->  " "
MWs(t, i) == IF t[i] \in Whitespace THEN RunEnd(t, i, Whitespace) ELSE 0

RWs(t, i, e) == <<" ">>

\* " ('[a-z]) "  ->  "\g<1> "
M159(t, i) ==
    IF Lit(t, i, <<" ", "'">>) /\ At(t, i + 2) \in LowerCase /\ At(t, i + 3) = " "
    THEN i + 4 ELSE 0

R159(t, i, e) == <<"'", t[i + 2], " ">>

\* " ([\.;,-]) "  ->  "\g<1> "
M160(t, i) ==
    IF t[i] = " " /\ At(t, i + 1) \in MidPunct /\ At(t, i + 2) = " "
    THEN i + 3 ELSE 0

R160(t, i, e) == <<t[i + 1], " ">>

\* " ([\.;,-?!])$"  ->  "\g<1>"
M161(t, i) ==
    IF t[i] = " " /\ At(t, i + 1) \in FinalPunct /\ AtEnd(t, i + 2)
    THEN i + 2 ELSE 0

R161(t, i, e) == <<t[i + 1]>>

\* " _ (.+) _ "  ->  " _\g<1>_ "   (.+ is greedy: up to the last " _ ";
\* the dot matches no newline)
Ends162(t, i) ==
    {j \in (i + 4)..Len(t) :
        /\ Lit(t, j, <<" ", "_", " ">>)
        /\ \A k \in (i + 3)..(j - 1) : t[k] # "\n"}

M162(t, i) ==
    IF Lit(t, i, <<" ", "_", " ">>) /\ Ends162(t, i) # {}
    THEN SetMax(Ends162(t, i)) + 3 ELSE 0

R162(t, i, e) == <<" ", "_">> \o SubSeq(t, i + 3, e - 4) \o <<"_", " ">>

\* " \$ ([\d\.]+) "  ->  " $\g<1> "
M163(t, i) ==
    IF Lit(t, i, <<" ", "$", " ">>)
    THEN LET r == RunEnd(t, i + 3, DigitsOrDot)
         IN  IF r > i + 3 /\ At(t, r) = " " THEN r + 1 ELSE 0
    ELSE 0

R163(t, i, e) == <<" ", "$">> \o SubSeq(t, i + 3, e - 2) \o <<" ">>

\* text.replace(" ' ", "' ")
M164(t, i) == IF Lit(t, i, <<" ", "'", " ">>) THEN i + 3 ELSE 0

R164(t, i, e) == <<"'", " ">>

\* "([\W\s])\( "  ->  "\g<1>("
M165(t, i) ==
    IF t[i] \notin WordChars /\ Lit(t, i + 1, <<"(", " ">>) THEN i + 3 ELSE 0

R165(t, i, e) == <<t[i], "(">>

\* " \)([\W\s])"  ->  ")\g<1>"
M166(t, i) ==
    IF Lit(t, i, <<" ", ")">>) /\ i + 2 <= Len(t) /\ At(t, i + 2) \notin WordChars
    THEN i + 3 ELSE 0

R166(t, i, e) == <<")", t[i + 2]>>

\* text.replace of the opening quote marker followed by a space (line 167)
\* by the marker alone
M167(t, i) == IF Lit(t, i, <<BackQuote, BackQuote, " ">>) THEN i + 3 ELSE 0

R167(t, i, e) == <<BackQuote, BackQuote>>

\* text.replace(" ''", "''")
M168(t, i) == IF Lit(t, i, <<" ", "'", "'">>) THEN i + 3 ELSE 0

R168(t, i, e) == <<"'", "'">>

\* text.replace(" n't", "n't")
M169(t, i) == IF Lit(t, i, <<" ", "n", "'", "t">>) THEN i + 4 ELSE 0

R169(t, i, e) == <<"n", "'", "t">>

\* '(^| )" ([^"]+) "( |$)'  ->  '\g<1>"\g<2>"\g<3>'
\* Q170(t, q): the opening quote stands at q; the result is the position one
\* past the match, 0 when the rest of the pattern does not match.  [^"]+ is
\* greedy and runs to the next quote, which has to be the closing one.
Q170(t, q) ==
    IF Lit(t, q, <<"\"", " ">>)
    THEN LET c == RunEndNot(t, q + 2, {"\""})
         IN  IF c <= Len(t) /\ c - 2 >= q + 2 /\ t[c - 1] = " "
             THEN IF At(t, c + 1) = " " THEN c + 2
                  ELSE IF AtEnd(t, c + 1) THEN c + 1
                  ELSE 0
             ELSE 0
    ELSE 0

M170(t, i) ==
    IF i = 1 /\ Q170(t, i) # 0 THEN Q170(t, i)
    ELSE IF t[i] = " " THEN Q170(t, i + 1)
    ELSE 0

\* the quoted span loses its inner leading and trailing space
R170(t, i, e) ==
    LET q == IF i = 1 /\ Q170(t, i) # 0 THEN i ELSE i + 1
        c == RunEndNot(t, q + 2, {"\""})
    IN  SubSeq(t, i, q) \o SubSeq(t, q + 2, c - 2) \o SubSeq(t, c, e - 1)

\* '(\d+) : (\d+ [ap]\.m\.)'  ->  '\g<1>:\g<2>'
M173(t, i) ==
    IF t[i] \in Digits
    THEN LET r == RunEnd(t, i, Digits)
             s == r + 3
             r2 == RunEnd(t, s, Digits)
         IN  IF /\ Lit(t, r, <<" ", ":", " ">>)
                /\ At(t, s) \in Digits
                /\ At(t, r2) = " "
                /\ At(t, r2 + 1) \in {"a", "p"}
                /\ Lit(t, r2 + 2, <<".", "m", ".">>)
             THEN r2 + 5 ELSE 0
    ELSE 0

R173(t, i, e) ==
    LET r == RunEnd(t, i, Digits)
    IN  SubSeq(t, i, r - 1) \o <<":">> \o SubSeq(t, r + 3, e - 1)

\* '^" '  ->  '"'
M175(t, i) == IF i = 1 /\ Lit(t, i, <<"\"", " ">>) THEN i + 2 ELSE 0

R175(t, i, e) == <<"\"">>

\* ' "$'  ->  '"'
M176(t, i) ==
    IF Lit(t, i, <<" ", "\"">>) /\ AtEnd(t, i + 2) THEN i + 2 ELSE 0

R176(t, i, e) == <<"\"">>

MatchEnd(rule, t, i) ==
    CASE rule = "ws" -> MWs(t, i)
      [] rule = "159" -> M159(t, i)
      [] rule = "160" -> M160(t, i)
      [] rule = "161" -> M161(t, i)
      [] rule = "162" -> M162(t, i)
      [] rule = "163" -> M163(t, i)
      [] rule = "164" -> M164(t, i)
      [] rule = "165" -> M165(t, i)
      [] rule = "166" -> M166(t, i)
      [] rule = "167" -> M167(t, i)
      [] rule = "168" -> M168(t, i)
      [] rule = "169" -> M169(t, i)
      [] rule = "170" -> M170(t, i)
      [] rule = "173" -> M173(t, i)
      [] rule = "175" -> M175(t, i)
      [] rule = "176" -> M176(t, i)

Replacement(rule, t, i, e) ==
    CASE rule = "ws" -> RWs(t, i, e)
      [] rule = "159" -> R159(t, i, e)
      [] rule = "160" -> R160(t, i, e)
      [] rule = "161" -> R161(t, i, e)
      [] rule = "162" -> R162(t, i, e)
      [] rule = "163" -> R163(t, i, e)
      [] rule = "164" -> R164(t, i, e)
      [] rule = "165" -> R165(t, i, e)
      [] rule = "166" -> R166(t, i, e)
      [] rule = "167" -> R167(t, i, e)
      [] rule = "168" -> R168(t, i, e)
      [] rule = "169" -> R169(t, i, e)
      [] rule = "170" -> R170(t, i, e)
      [] rule = "173" -> R173(t, i, e)
      [] rule = "175" -> R175(t, i, e)
      [] rule = "176" -> R176(t, i, e)

\* re.sub(pattern, replacement, text) and str.replace(old, new), from
\* position i on: the leftmost match is replaced and the scan goes on right
\* after it, so matches never overlap
RECURSIVE ReSubFrom(_, _, _)
ReSubFrom(rule, t, i) ==
    IF i > Len(t) THEN <<>>
    ELSE LET e == MatchEnd(rule, t, i)
         IN  IF e = 0 THEN <<t[i]>> \o ReSubFrom(rule, t, i + 1)
             ELSE Replacement(rule, t, i, e) \o ReSubFrom(rule, t, e)

ReSub(rule, t) == ReSubFrom(rule, t, 1)

\* the normalisation without its strip(): whitespace runs collapse, but one
\* at the start or the end of the text stays, as a single space
NormalizeSpaceNoStrip(t) == ReSub("ws", t)

\* re.sub(u"\s+", u" ", text.strip())
NormalizeSpace(t) == ReSub("ws", Strip(t))

\* the rewrites of lines 159 to 176, in the order of the source
RuleOrder ==
    <<"159", "160", "161", "162", "163", "164", "165", "166", "167", "168",
      "169", "170", "173", "175", "176">>

RECURSIVE ApplyRules(_, _)
ApplyRules(rules, t) ==
    IF rules = <<>> THEN t
    ELSE ApplyRules(Tail(rules), ReSub(Head(rules), t))

\* LoadFile._untokenize
untokenize(tokens) ==
    NormalizeSpace(ApplyRules(RuleOrder, NormalizeSpace(Join(tokens))))

(***************************************************************************)
(* Bounds and input domains of the model.                                  *)
(***************************************************************************)
\* the directory holds at most MaxLines lines, over all its files
MaxLines == 2

\* read_documents is not called once the corpus would outgrow MaxCorpus
MaxCorpus == 3

\* _untokenize is applied to at most MaxTokens tokens
MaxTokens == 4

\* the files of input_directory that match the extension
DocIds == {"d1", "d2"}

\* the lines a file is made of, as readlines() returns them
BlankLine == <<"\n">>

Lines ==
    { BlankLine,
      <<"a", " ", "b", "\n">>,
      <<"\"", " ", "a", " ", "b", "\n">>,
      <<BackQuote, BackQuote, " ", "a", " ", "b", " ", "'", "'", "\n">>,
      <<BackQuote, BackQuote, " ", "a", " ", "b", " ", "\"", "\n">>,
      <<"a", " ", "$", " ", "5", " ", "b", "\n">> }

\* the arguments prune_sentences is called with (the sentences of Lines are
\* one to three words long: the line with the dollar amount has three, so that both length checks drop some of them)
MinLengths == {1, 2}

MaxLengths == {2, 3}

SeqUpTo(S, n) == UNION {[1..k -> S] : k \in 0..n}

\* the token lists handed to _untokenize, one family per group of rules
TokenFamilies ==
    { {<<>>, <<" ">>, <<"\t">>, <<"a">>, <<"a", " ", "b">>, <<".">>},
      {<<"$">>, <<"1", "2", ".", "5", "0">>, <<"5">>, <<"w", "a", "s">>,
       <<"p", "a", "i", "d">>, <<".">>},
      {<<"i", "t">>, <<"t", "h", "e", "y">>, <<"'", "s">>, <<"'", "r", "e">>,
       <<"o", "k">>, <<"n", "'", "t">>},
      {<<"t", "h", "i", "s">>, <<"i", "s">>, <<"f", "i", "n", "e">>, <<".">>,
       <<"?">>, <<"/">>},
      {<<"s", "e", "e">>, <<"p", "a", "g", "e">>, <<"5">>, <<":">>, <<"!">>,
       <<";">>},
      {<<"a">>, <<",">>, <<"-">>, <<"\"">>, <<"(">>, <<")">>},
      {<<"3">>, <<":">>, <<"1", "5">>, <<"p", ".", "m", ".">>, <<"_">>,
       <<"a">>} }

(***************************************************************************)
(* The state.                                                              *)
(***************************************************************************)
VARIABLES
    files,      \* the content of input_directory: file -> its lines
    sentences,  \* LoadFile.sentences
    call,       \* the last call on the LoadFile object, with its arguments
                \* and the corpus it found
    utokens,    \* the argument of a direct call of _untokenize
    utext,      \* its result
    upc         \* "call" before that call returns, "return" after

vars == <<files, sentences, call, utokens, utext, upc>>

\* class Sentence, as __init__ leaves it
Sentence(tokens, doc_id, position) ==
    [tokens |-> tokens, doc_id |-> doc_id, position |-> position,
     concepts |-> <<>>, untokenized_form |-> <<>>, length |-> 0]

(***************************************************************************)
(* LoadFile.read_documents                                                 *)
(***************************************************************************)
\* lines[i].strip().split(' '), tabulated over the lines of the model
LineTokens == [line \in Lines |-> SplitSpace(Strip(line))]

\* self._untokenize(tokens), tabulated over the lines of the model
LineUntokenized == [line \in Lines |-> untokenize(LineTokens[line])]

\* the body of the loop over the lines: the sentences line i adds
LineSentences(line, input_file, i) ==
    LET tokens == LineTokens[line]
        untokenized_form == LineUntokenized[line]
    IN  IF Len(tokens) > 0
        THEN <<[Sentence(tokens, input_file, i) EXCEPT
                    !.untokenized_form = untokenized_form,
                    !.length = Len(SplitSpace(untokenized_form))]>>
        ELSE <<>>

\* for i in range(len(lines)), from i on
RECURSIVE FileSentences(_, _, _)
FileSentences(lines, input_file, i) ==
    IF i >= Len(lines) THEN <<>>
    ELSE LineSentences(lines[i + 1], input_file, i)
         \o FileSentences(lines, input_file, i + 1)

\* for input_file in glob.glob(...), in the order glob gives
RECURSIVE read_documents(_, _, _)
read_documents(ss, dir, order) ==
    IF order = <<>> THEN ss
    ELSE read_documents(ss \o FileSentences(dir[Head(order)], Head(order), 0),
                        dir, Tail(order))

\* the orders glob.glob may list the files in
GlobOrders ==
    {o \in [1..Cardinality(DocIds) -> DocIds] :
        \A i, j \in DOMAIN o : i # j => o[i] # o[j]}

(***************************************************************************)
(* LoadFile.prune_sentences                                                *)
(***************************************************************************)
\* the citation test of lines 125 to 128
IsCitation(sentence) ==
    LET first_token == sentence.tokens[1]
        last_token == sentence.tokens[Len(sentence.tokens)]
    IN  /\ (first_token = <<BackQuote, BackQuote>> \/ first_token = <<"\"">>)
        /\ (last_token = <<"'", "'">> \/ first_token = <<"\"">>)

\* a redundancy test that compares the sentences, not their tokens
IsRedundantSentence(sentence, pruned_sentences) ==
    \E k \in 1..Len(pruned_sentences) : sentence = pruned_sentences[k]

\* the redundancy test of lines 133 to 137
IsRedundant(sentence, pruned_sentences) ==
    \E k \in 1..Len(pruned_sentences) :
        sentence.tokens = pruned_sentences[k].tokens

\* the sentence meets one of the four `continue` of the loop body
Pruned(sentence, pruned_sentences, mn, mx, rc, rr) ==
    \/ sentence.length < mn
    \/ sentence.length > mx
    \/ rc /\ IsCitation(sentence)
    \/ rr /\ IsRedundant(sentence, pruned_sentences)

\* a container that takes the sentence at its front
KeepFirst(pruned_sentences, sentence) == <<sentence>> \o pruned_sentences

\* pruned_sentences.append(sentence)
Keep(pruned_sentences, sentence) == Append(pruned_sentences, sentence)

\* for sentence in self.sentences, from the i-th sentence on
RECURSIVE PruneLoop(_, _, _, _, _, _, _)
PruneLoop(ss, i, pruned_sentences, mn, mx, rc, rr) ==
    IF i > Len(ss) THEN pruned_sentences
    ELSE IF Pruned(ss[i], pruned_sentences, mn, mx, rc, rr)
         THEN PruneLoop(ss, i + 1, pruned_sentences, mn, mx, rc, rr)
         ELSE PruneLoop(ss, i + 1, Keep(pruned_sentences, ss[i]),
                        mn, mx, rc, rr)

\* a pruning that removes from self.sentences while it iterates over it: the
\* iterator then steps over the sentence that follows each removed one
RECURSIVE RemoveLoop(_, _, _, _, _, _)
RemoveLoop(ss, i, mn, mx, rc, rr) ==
    IF i > Len(ss) THEN ss
    ELSE IF Pruned(ss[i], SubSeq(ss, 1, i - 1), mn, mx, rc, rr)
         THEN RemoveLoop(SubSeq(ss, 1, i - 1) \o SubSeq(ss, i + 1, Len(ss)),
                         i + 1, mn, mx, rc, rr)
         ELSE RemoveLoop(ss, i + 1, mn, mx, rc, rr)

prune_sentences_in_place(ss, mn, mx, rc, rr) ==
    RemoveLoop(ss, 1, mn, mx, rc, rr)

\* LoadFile.prune_sentences: the value self.sentences is left with
prune_sentences(ss, mn, mx, rc, rr) == PruneLoop(ss, 1, <<>>, mn, mx, rc, rr)

(***************************************************************************)
(* The state machine of a LoadFile object.                                 *)
(***************************************************************************)
NoCall ==
    [op |-> "init", mn |-> 0, mx |-> 0, rc |-> FALSE, rr |-> FALSE,
     before |-> <<>>, repeat |-> FALSE, prior |-> <<>>]

TotalLines(dir) ==
    LET RECURSIVE Sum(_)
        Sum(D) == IF D = {} THEN 0
                  ELSE LET d == CHOOSE x \in D : TRUE
                       IN  Len(dir[d]) + Sum(D \ {d})
    IN  Sum(DOMAIN dir)

Directories ==
    {dir \in [DocIds -> SeqUpTo(Lines, MaxLines)] : TotalLines(dir) <= MaxLines}

\* LoadFile.__init__ on a directory
Init ==
    /\ files \in Directories
    /\ sentences = <<>>
    /\ call = NoCall
    /\ utokens = <<>>
    /\ utext = <<>>
    /\ upc = "idle"

ReadDocuments ==
    \E order \in GlobOrders :
        /\ Len(sentences) + TotalLines(files) <= MaxCorpus
        /\ sentences' = read_documents(sentences, files, order)
        /\ call' = [NoCall EXCEPT !.op = "read_documents", !.before = sentences]
        /\ UNCHANGED <<files, utokens, utext, upc>>

PruneSentences ==
    \E mn \in MinLengths, mx \in MaxLengths, rc \in BOOLEAN, rr \in BOOLEAN :
        LET repeat == /\ call.op = "prune_sentences"
                      /\ <<call.mn, call.mx, call.rc, call.rr>> = <<mn, mx, rc, rr>>
        IN  /\ sentences' = prune_sentences(sentences, mn, mx, rc, rr)
            /\ call' = [op |-> "prune_sentences", mn |-> mn, mx |-> mx,
                        rc |-> rc, rr |-> rr, before |-> sentences,
                        repeat |-> repeat,
                        prior |-> IF repeat THEN call.before ELSE <<>>]
            /\ UNCHANGED <<files, utokens, utext, upc>>

Next == ReadDocuments \/ PruneSentences

Spec == Init /\ [][Next]_vars

(***************************************************************************)
(* _untokenize called on its own, on any list of tokens.                   *)
(***************************************************************************)
InitUntokenize ==
    /\ files = [d \in DocIds |-> <<>>]
    /\ sentences = <<>>
    /\ call = NoCall
    /\ \E family \in TokenFamilies : utokens \in SeqUpTo(family, MaxTokens)
    /\ utext = <<>>
    /\ upc = "call"

Untokenize ==
    /\ upc = "call"
    /\ utext' = untokenize(utokens)
    /\ upc' = "return"
    /\ UNCHANGED <<files, sentences, call, utokens>>

NextUntokenize == Untokenize

SpecUntokenize == InitUntokenize /\ [][NextUntokenize]_vars

(***************************************************************************)
(* Vocabulary of the properties.                                           *)
(***************************************************************************)
Range(seq) == {seq[k] : k \in DOMAIN seq}

PruneReturned == call.op = "prune_sentences"

\* the sentence is within the length bounds of the last call
LengthOK(s) == s.length >= call.mn /\ s.length <= call.mx

OpeningQuote(token) == token \in {<<BackQuote, BackQuote>>, <<"\"">>}

ClosingQuote(token) == token \in {<<"'", "'">>, <<"\"">>}

\* the sentence passes the length checks and the citation check of the
\* last call, as the code applies them
Passes(s) == LengthOK(s) /\ ~(call.rc /\ IsCitation(s))

RECURSIVE IsSubsequence(_, _)
IsSubsequence(s, b) ==
    IF s = <<>> THEN TRUE
    ELSE IF b = <<>> THEN FALSE
    ELSE IF Head(s) = Head(b) THEN IsSubsequence(Tail(s), Tail(b))
    ELSE IsSubsequence(s, Tail(b))

\* the number of maximal runs of non-whitespace characters of a text
WordCount(t) ==
    Cardinality({i \in 1..Len(t) :
                    t[i] \notin Whitespace /\ (i = 1 \/ t[i - 1] \in Whitespace)})

\* part occurs in text, as a run of consecutive characters
Contains(text, part) ==
    \E i \in 1..(Len(text) - Len(part) + 1) :
        SubSeq(text, i, i + Len(part) - 1) = part

IsWord(token) ==
    token # <<>> /\ \A k \in DOMAIN token : token[k] \in LowerCase \cup UpperCase

\* digits, optionally with a decimal point
IsNumber(token) ==
    /\ \A k \in DOMAIN token : token[k] \in DigitsOrDot
    /\ \E k \in DOMAIN token : token[k] \in Digits

\* an apostrophe followed directly by one or more lowercase letters
IsContraction(token) ==
    /\ Len(token) >= 2
    /\ token[1] = "'"
    /\ \A k \in 2..Len(token) : token[k] \in LowerCase

(***************************************************************************)
(* C1.  In prune_sentences with remove_citations=True, a sentence that     *)
(* passed the length checks is dropped by the citation check if and only   *)
(* if its first token is an opening quote marker and its last token is a   *)
(* closing quote marker; with remove_citations=False the check drops       *)
(* nothing.  The statement is read off a call with remove_redundancy=False,*)
(* where a sentence within the length bounds is missing from the result    *)
(* exactly when the citation check dropped it.                             *)
(***************************************************************************)
C1_CitationCheck ==
    (PruneReturned /\ ~call.rr) =>
        \A i \in DOMAIN call.before :
            LET s == call.before[i]
            IN  LengthOK(s) =>
                    ((s \notin Range(sentences)) <=>
                        /\ call.rc
                        /\ OpeningQuote(s.tokens[1])
                        /\ ClosingQuote(s.tokens[Len(s.tokens)]))

(***************************************************************************)
(* C2.  After prune_sentences with remove_redundancy=True no two sentences *)
(* of the corpus have the same tokens, and of the sentences with the same  *)
(* tokens that pass the length and citation checks exactly the first one   *)
(* of the input survives, whatever its doc_id and position; with           *)
(* remove_redundancy=False all of them survive.                            *)
(***************************************************************************)
C2_Redundancy ==
    PruneReturned =>
        LET b == call.before
            P == {i \in DOMAIN b : Passes(b[i])}
            Same(i) == {j \in P : b[j].tokens = b[i].tokens}
            Kept(i) == {k \in DOMAIN sentences : sentences[k].tokens = b[i].tokens}
        IN  IF call.rr
            THEN /\ \A i, j \in DOMAIN sentences :
                        i # j => sentences[i].tokens # sentences[j].tokens
                 /\ \A i \in P :
                        /\ Cardinality(Kept(i)) = 1
                        /\ \A k \in Kept(i) : sentences[k] = b[SetMin(Same(i))]
            ELSE \A i \in P : Cardinality(Kept(i)) = Cardinality(Same(i))

\* a pruning with remove_redundancy=True met two passing sentences with the
\* same tokens, of different documents, and kept a sentence
C2_Witness ==
    /\ PruneReturned
    /\ call.rr
    /\ sentences # <<>>
    /\ \E i, j \in DOMAIN call.before :
            /\ i < j
            /\ call.before[i].tokens = call.before[j].tokens
            /\ call.before[i].doc_id # call.before[j].doc_id
            /\ Passes(call.before[i])
            /\ Passes(call.before[j])

(***************************************************************************)
(* C3.  The corpus after prune_sentences is a subsequence of the corpus    *)
(* before it: every survivor was in the input, the survivors keep their    *)
(* relative order, and every field of a survivor is as it was.             *)
(***************************************************************************)
C3_Subsequence == PruneReturned => IsSubsequence(sentences, call.before)

\* a pruning dropped some sentences and kept two different ones
C3_Witness ==
    /\ PruneReturned
    /\ Len(sentences) >= 2
    /\ Len(sentences) < Len(call.before)
    /\ sentences[1] # sentences[2]

(***************************************************************************)
(* C4.  read_documents excludes every line that is empty after stripping:  *)
(* the sentences a call appends are as many as the non-blank lines of the  *)
(* files, and every sentence of the corpus has at least one non-empty      *)
(* token.                                                                  *)
(***************************************************************************)
NonBlankLines ==
    {<<d, i>> \in DocIds \X (1..MaxLines) :
        i <= Len(files[d]) /\ Strip(files[d][i]) # <<>>}

C4_BlankLinesExcluded ==
    /\ \A k \in DOMAIN sentences :
            \E j \in DOMAIN sentences[k].tokens : sentences[k].tokens[j] # <<>>
    /\ call.op = "read_documents" =>
            Len(sentences) - Len(call.before) = Cardinality(NonBlankLines)

(***************************************************************************)
(* C5.  Every sentence read_documents appends has a length equal to the    *)
(* number of whitespace-delimited segments of its untokenized_form (0 for  *)
(* an empty untokenized_form).                                             *)
(***************************************************************************)
C5_LengthIsWordCount ==
    \A k \in DOMAIN sentences :
        sentences[k].length = WordCount(sentences[k].untokenized_form)

(***************************************************************************)
(* C6.  The string _untokenize returns holds no two consecutive spaces and *)
(* neither starts nor ends with a space, for every list of tokens.         *)
(***************************************************************************)
C6_SingleSpaces ==
    upc = "return" =>
        /\ \A i \in 1..(Len(utext) - 1) : ~(utext[i] = " " /\ utext[i + 1] = " ")
        /\ utext # <<>> => (utext[1] # " " /\ utext[Len(utext)] # " ")

\* _untokenize returned a non-empty string for tokens of which one is empty
\* and one is whitespace
C6_Witness ==
    /\ upc = "return"
    /\ utext # <<>>
    /\ \E k \in DOMAIN utokens : utokens[k] = <<>>
    /\ \E k \in DOMAIN utokens :
            utokens[k] # <<>> /\ \A c \in Range(utokens[k]) : c \in Whitespace

(***************************************************************************)
(* C7.  Where a "$" token is followed by a numeric token that is followed  *)
(* by further tokens, _untokenize joins the "$" and the number with no     *)
(* space between them, wherever the "$" stands, the first token included.  *)
(***************************************************************************)
C7_CurrencyFusion ==
    upc = "return" =>
        \A i \in 1..(Len(utokens) - 2) :
            (utokens[i] = <<"$">> /\ IsNumber(utokens[i + 1])) =>
                /\ Contains(utext, <<"$">> \o utokens[i + 1])
                /\ ~Contains(utext, <<"$", " ">> \o utokens[i + 1])

(***************************************************************************)
(* C8.  Where a contraction token (an apostrophe and one or more lowercase *)
(* letters) comes after a word and before further text, _untokenize        *)
(* removes the space before it and keeps the space after it.               *)
(***************************************************************************)
C8_ContractionFusion ==
    upc = "return" =>
        \A i \in 2..(Len(utokens) - 1) :
            (/\ IsWord(utokens[i - 1])
             /\ IsContraction(utokens[i])
             /\ IsWord(utokens[i + 1])) =>
                /\ Contains(utext, utokens[i - 1] \o utokens[i] \o <<" ">>)
                /\ ~Contains(utext, utokens[i - 1] \o <<" ">> \o utokens[i])

(***************************************************************************)
(* C9.  The space before the final token is removed exactly when that      *)
(* token is one of . ; , - ? ! and is left in place before any other       *)
(* single-character final token.  The statement is read off the token      *)
(* lists whose other tokens are words and whose final token is neither    *)
(* whitespace nor a double quote, on which no other rule touches that      *)
(* space.                                                                  *)
(***************************************************************************)
C9_FinalPunctuation ==
    LET n == Len(utokens)
    IN  (/\ upc = "return"
         /\ n >= 2
         /\ Len(utokens[n]) = 1
         /\ utokens[n][1] \notin Whitespace \cup {"\""}
         /\ \A k \in 1..(n - 1) : IsWord(utokens[k])) =>
            LET words == Join(SubSeq(utokens, 1, n - 1))
            IN  IF utokens[n][1] \in {".", ";", ",", "-", "?", "!"}
                THEN utext = words \o utokens[n]
                ELSE utext = words \o <<" ">> \o utokens[n]

(***************************************************************************)
(* C10.  prune_sentences is idempotent: a second call with the arguments   *)
(* of the first, with no read_documents in between, leaves the corpus as   *)
(* the first call left it.                                                 *)
(***************************************************************************)
C10_Idempotent == (PruneReturned /\ call.repeat) => sentences = call.before

\* the second of two equal calls returned, on a corpus of which the first
\* call had dropped a part and kept a part
C10_Witness ==
    /\ PruneReturned
    /\ call.repeat
    /\ sentences # <<>>
    /\ Len(sentences) < Len(call.prior)

====
